---- MODULE Spec2Model ----
(***************************************************************************)
(* GInetFlow - IP flow manager (src/ginetflow.c).                          *)
(*                                                                         *)
(* A GInetFlowTable owns a GHashTable of GInetFlow records, hashed by      *)
(* flow_hash and compared by flow_compare, a GList of the same records in  *)
(* recency order, and the hits / misses counters.  g_inet_flow_get_full    *)
(* parses an Ethernet frame into a canonical tuple and returns the record  *)
(* of the flow, creating it on a miss.                                     *)
(*                                                                         *)
(* Representation.  A frame is the memory the parser reads through the     *)
(* packed header structs: the bytes at the offsets of e->protocol,         *)
(* iph->protocol, iph->saddr, iph->daddr, tcp->source, tcp->destination.   *)
(* The `length` argument is separate from those bytes: the parser reads    *)
(* the fields it reads whatever `length` says.  Multi-byte fields are byte *)
(* sequences in memory order (network order); conversions to host numbers  *)
(* are explicit.  A guint32 is a pair of 16-bit halves, since the values   *)
(* (a wrapped length, an address above 127.255.255.255) exceed the         *)
(* checker's integers.  The host is little-endian.                         *)
(***************************************************************************)
EXTENDS Integers, Naturals, Sequences, FiniteSets, TLC

(***************************************************************************)
(* Bounds of the model.                                                    *)
(***************************************************************************)
\* calls of g_inet_flow_get_full / g_inet_flow_get explored by Spec
MaxCalls == 4
\* calls explored by SpecParse
MaxParseCalls == 2
\* microseconds the wall clock advances in SpecParse
MaxTicks == 1

(***************************************************************************)
(* Program constants.                                                      *)
(***************************************************************************)
ETH_PROTOCOL_IP == 2048
ETH_PROTOCOL_IPV6 == 34525
IP_PROTOCOL_ICMP == 1
IP_PROTOCOL_TCP == 6
IP_PROTOCOL_UDP == 17
\* sizeof (ethernet_hdr_t), sizeof (ip_hdr_t), sizeof (tcp_hdr_t): packed structs
SizeofEthernetHdr == 14
SizeofIpHdr == 20
SizeofTcpHdr == 20
\* G_SOCKET_FAMILY_IPV4 (AF_INET)
G_SOCKET_FAMILY_IPV4 == 2
\* the null pointer; records are numbered from 1 in allocation order
NULL == 0
\* flow_hash: the three registers start at 0xffff
Crc16Init == 65535

\* property ids of GInetFlow and of GInetFlowTable
FLOW_HASH == 1
FLOW_PROTOCOL == 2
FLOW_LPORT == 3
FLOW_UPORT == 4
FLOW_LIP == 5
FLOW_UIP == 6
TABLE_SIZE == 1
TABLE_HITS == 2
TABLE_MISSES == 3

(***************************************************************************)
(* Machine integers.                                                       *)
(***************************************************************************)
Two16 == 65536

\* a guint32 below 2^31 given as a number
U32(n) == [hi |-> n \div Two16, lo |-> n % Two16]

\* guint32 x - k, wrapping modulo 2^32, for 0 <= k < 2^16
U32Sub(x, k) ==
    IF x.lo >= k
    THEN [hi |-> x.hi, lo |-> x.lo - k]
    ELSE [hi |-> (x.hi + Two16 - 1) % Two16, lo |-> x.lo + Two16 - k]

\* guint32 x < k for a small constant k (unsigned comparison with a sizeof)
U32LtSmall(x, k) == x.hi = 0 /\ x.lo < k

\* unsigned x < y
U32Lt(x, y) == x.hi < y.hi \/ (x.hi = y.hi /\ x.lo < y.lo)

\* GUINT16_FROM_BE on a little-endian host: the two bytes in memory, first byte high
GUINT16_FROM_BE(b) == b[1] * 256 + b[2]

\* GINT32_FROM_BE assigned to a guint32: the four bytes in memory, first byte highest
GINT32_FROM_BE(b) == [hi |-> b[1] * 256 + b[2], lo |-> b[3] * 256 + b[4]]

\* a ^ b on non-negative numbers (used where both operands vary)
RECURSIVE BitXor(_, _)
BitXor(a, b) ==
    IF a = 0 THEN b
    ELSE IF b = 0 THEN a
    ELSE ((a + b) % 2) + 2 * BitXor(a \div 2, b \div 2)

\* x with bit k inverted
FlipBit(x, k) == IF (x \div (2 ^ k)) % 2 = 1 THEN x - 2 ^ k ELSE x + 2 ^ k

(***************************************************************************)
(* crc16 (guint16 iv, guint64 p): p is given as its eight bytes, most      *)
(* significant first, the order in which the loop consumes them.           *)
(* 0x1021 has bits 12, 5 and 0 set, so ^ poly inverts those three bits.    *)
(* The register is compared with 0 after each byte only to have it         *)
(* evaluated before the next byte is taken, which keeps the evaluation of  *)
(* a long input shallow.                                                   *)
(***************************************************************************)
XorPoly(x) == FlipBit(FlipBit(FlipBit(x, 12), 5), 0)

\* iv = ((iv << 1) ^ ((((iv >> 15) & 1) ^ bit) ? poly : 0)) & 0xffff
Crc16Bit(iv, bit) ==
    LET shifted == (iv * 2) % Two16
    IN  IF ((iv \div 32768) % 2) # bit THEN XorPoly(shifted) ELSE shifted

RECURSIVE Crc16Byte(_, _, _)
Crc16Byte(iv, b, j) ==
    IF j < 0 THEN iv
    ELSE LET reg == Crc16Bit(iv, (b \div (2 ^ j)) % 2)
         IN  IF reg >= 0 THEN Crc16Byte(reg, b, j - 1) ELSE reg

RECURSIVE crc16(_, _)
crc16(iv, p) ==
    IF p = <<>> THEN iv
    ELSE LET reg == Crc16Byte(iv, Head(p), 7)
         IN  IF reg >= 0 THEN crc16(reg, Tail(p)) ELSE reg

(***************************************************************************)
(* GInetFlow: the fields g_inet_flow_get_full reads and writes.            *)
(* tuple.lower_ip / upper_ip are guint32[4]; each word is its four bytes   *)
(* in memory order.                                                        *)
(***************************************************************************)
ZeroWord == <<0, 0, 0, 0>>
ZeroIp == <<ZeroWord, ZeroWord, ZeroWord, ZeroWord>>

\* GInetFlow packet = {};  also the state of a record fresh from g_object_new
ZeroFlow ==
    [timestamp |-> 0, family |-> 0, hash |-> 0,
     tuple |-> [protocol |-> 0, lower_port |-> 0, upper_port |-> 0,
                lower_ip |-> ZeroIp, upper_ip |-> ZeroIp]]

\* the value of a guint32 word as bytes, most significant first (little-endian host)
HostBytes(w) == <<w[4], w[3], w[2], w[1]>>

\* ((guint64) ip[i]) << 32 | ip[i + 1]
Join64(ip, i) == HostBytes(ip[i]) \o HostBytes(ip[i + 1])

\* ((guint64) port) << 48
Port64(port) == <<port \div 256, port % 256, 0, 0, 0, 0, 0, 0>>

\* ((guint64) protocol) << 56: the bits above the low byte are shifted out
Proto64(protocol) == <<protocol % 256, 0, 0, 0, 0, 0, 0, 0>>

\* the three CRCs of flow_hash and their XOR
TupleCrc(t) ==
    LET src_crc == crc16(crc16(crc16(Crc16Init, Join64(t.lower_ip, 1)),
                               Join64(t.lower_ip, 3)), Port64(t.lower_port))
        dst_crc == crc16(crc16(crc16(Crc16Init, Join64(t.upper_ip, 1)),
                               Join64(t.upper_ip, 3)), Port64(t.upper_port))
        prot_crc == crc16(Crc16Init, Proto64(t.protocol))
    IN  BitXor(BitXor(src_crc, dst_crc), prot_crc)

\* variant: the addresses are left out of the comparison
flow_compare_no_ip(f1, f2) ==
    IF f1.tuple.protocol # f2.tuple.protocol THEN FALSE
    ELSE IF f1.tuple.lower_port # f2.tuple.lower_port THEN FALSE
    ELSE IF f1.tuple.upper_port # f2.tuple.upper_port THEN FALSE
    ELSE TRUE

\* variant: the result of the last memcmp is read the wrong way round
flow_compare_inverted(f1, f2) ==
    IF f1.tuple.protocol # f2.tuple.protocol THEN FALSE
    ELSE IF f1.tuple.lower_port # f2.tuple.lower_port THEN FALSE
    ELSE IF f1.tuple.upper_port # f2.tuple.upper_port THEN FALSE
    ELSE IF f1.tuple.upper_ip # f2.tuple.upper_ip THEN FALSE
    ELSE IF f1.tuple.lower_ip = f2.tuple.lower_ip THEN FALSE
    ELSE TRUE

flow_compare(f1, f2) ==
    IF f1.tuple.protocol # f2.tuple.protocol THEN FALSE
    ELSE IF f1.tuple.lower_port # f2.tuple.lower_port THEN FALSE
    ELSE IF f1.tuple.upper_port # f2.tuple.upper_port THEN FALSE
    ELSE IF f1.tuple.upper_ip # f2.tuple.upper_ip THEN FALSE
    ELSE IF f1.tuple.lower_ip # f2.tuple.lower_ip THEN FALSE
    ELSE TRUE

(***************************************************************************)
(* The parser.  Each function returns its gboolean and the flow as it      *)
(* leaves it.  `length` is a guint32.                                      *)
(***************************************************************************)
\* variant: the ports are stored in packet direction, source as lower
flow_parse_tcp_directed(f, data, length) ==
    IF U32LtSmall(length, SizeofTcpHdr) THEN [ok |-> FALSE, f |-> f]
    ELSE [ok |-> TRUE,
          f |-> [f EXCEPT !.tuple.lower_port = GUINT16_FROM_BE(data.tcp_source),
                          !.tuple.upper_port = GUINT16_FROM_BE(data.tcp_destination)]]

\* variant: only the four bytes of the two ports are required
flow_parse_tcp_ports_only(f, data, length) ==
    IF U32LtSmall(length, 4) THEN [ok |-> FALSE, f |-> f]
    ELSE LET sport == GUINT16_FROM_BE(data.tcp_source)
             dport == GUINT16_FROM_BE(data.tcp_destination)
         IN  IF sport < dport
             THEN [ok |-> TRUE,
                   f |-> [f EXCEPT !.tuple.lower_port = sport, !.tuple.upper_port = dport]]
             ELSE [ok |-> TRUE,
                   f |-> [f EXCEPT !.tuple.upper_port = sport, !.tuple.lower_port = dport]]

flow_parse_tcp(f, data, length) ==
    IF U32LtSmall(length, SizeofTcpHdr) THEN [ok |-> FALSE, f |-> f]
    ELSE LET sport == GUINT16_FROM_BE(data.tcp_source)
             dport == GUINT16_FROM_BE(data.tcp_destination)
         IN  IF sport < dport
             THEN [ok |-> TRUE,
                   f |-> [f EXCEPT !.tuple.lower_port = sport, !.tuple.upper_port = dport]]
             ELSE [ok |-> TRUE,
                   f |-> [f EXCEPT !.tuple.upper_port = sport, !.tuple.lower_port = dport]]

\* variant: UDP packets have their ports parsed like TCP packets
flow_parse_ipv4_udp(f, data, length) ==
    IF U32LtSmall(length, SizeofIpHdr) THEN [ok |-> FALSE, f |-> f]
    ELSE LET sip == GINT32_FROM_BE(data.saddr)
             dip == GINT32_FROM_BE(data.daddr)
             f1 == IF U32Lt(sip, dip)
                   THEN [f EXCEPT !.tuple.lower_ip[1] = data.saddr,
                                  !.tuple.upper_ip[1] = data.daddr]
                   ELSE [f EXCEPT !.tuple.upper_ip[1] = data.saddr,
                                  !.tuple.lower_ip[1] = data.daddr]
             f2 == [f1 EXCEPT !.tuple.protocol = data.ip_protocol]
         IN  IF data.ip_protocol \in {IP_PROTOCOL_TCP, IP_PROTOCOL_UDP}
             THEN flow_parse_tcp(f2, data, U32Sub(length, SizeofIpHdr))
             ELSE [ok |-> FALSE, f |-> f2]

\* variant: the addresses are compared as the host reads them, without GINT32_FROM_BE
flow_parse_ipv4_raw(f, data, length) ==
    IF U32LtSmall(length, SizeofIpHdr) THEN [ok |-> FALSE, f |-> f]
    ELSE LET sip == GINT32_FROM_BE(HostBytes(data.saddr))
             dip == GINT32_FROM_BE(HostBytes(data.daddr))
             f1 == IF U32Lt(sip, dip)
                   THEN [f EXCEPT !.tuple.lower_ip[1] = data.saddr,
                                  !.tuple.upper_ip[1] = data.daddr]
                   ELSE [f EXCEPT !.tuple.upper_ip[1] = data.saddr,
                                  !.tuple.lower_ip[1] = data.daddr]
             f2 == [f1 EXCEPT !.tuple.protocol = data.ip_protocol]
         IN  IF data.ip_protocol = IP_PROTOCOL_TCP
             THEN flow_parse_tcp(f2, data, U32Sub(length, SizeofIpHdr))
             ELSE [ok |-> FALSE, f |-> f2]

flow_parse_ipv4(f, data, length) ==
    IF U32LtSmall(length, SizeofIpHdr) THEN [ok |-> FALSE, f |-> f]
    ELSE LET sip == GINT32_FROM_BE(data.saddr)
             dip == GINT32_FROM_BE(data.daddr)
             f1 == IF U32Lt(sip, dip)
                   THEN [f EXCEPT !.tuple.lower_ip[1] = data.saddr,
                                  !.tuple.upper_ip[1] = data.daddr]
                   ELSE [f EXCEPT !.tuple.upper_ip[1] = data.saddr,
                                  !.tuple.lower_ip[1] = data.daddr]
             f2 == [f1 EXCEPT !.tuple.protocol = data.ip_protocol]
         IN  IF data.ip_protocol = IP_PROTOCOL_TCP
             THEN flow_parse_tcp(f2, data, U32Sub(length, SizeofIpHdr))
             ELSE [ok |-> FALSE, f |-> f2]

flow_parse(f, data, length, hash) ==
    IF GUINT16_FROM_BE(data.eth_protocol) = ETH_PROTOCOL_IP
    THEN flow_parse_ipv4([f EXCEPT !.family = G_SOCKET_FAMILY_IPV4, !.hash = hash],
                         data, U32Sub(length, SizeofEthernetHdr))
    ELSE [ok |-> FALSE, f |-> f]

(***************************************************************************)
(* Inputs.                                                                 *)
(***************************************************************************)
\* a 16-bit number as two bytes in network order
BE16(n) == <<n \div 256, n % 256>>

Frame(eth, proto, sa, sp, da, dp) ==
    [eth_protocol |-> BE16(eth), ip_protocol |-> proto,
     saddr |-> sa, daddr |-> da, tcp_source |-> BE16(sp), tcp_destination |-> BE16(dp)]

TcpFrame(sa, sp, da, dp) == Frame(ETH_PROTOCOL_IP, IP_PROTOCOL_TCP, sa, sp, da, dp)

\* the same packet travelling the other way
Reverse(frame) ==
    [frame EXCEPT !.saddr = frame.daddr, !.daddr = frame.saddr,
                  !.tcp_source = frame.tcp_destination,
                  !.tcp_destination = frame.tcp_source]

Addr1 == <<10, 0, 0, 1>>
Addr2 == <<10, 0, 0, 2>>
Addr3 == <<192, 168, 1, 0>>
Ports == <<443, 51000>>
PortA == Ports[1]
PortB == Ports[2]

\* a whole Ethernet + IPv4 + TCP header
FullLength == SizeofEthernetHdr + SizeofIpHdr + SizeofTcpHdr

\* 10.0.0.1:443 -> 10.0.0.2:51000, its reverse, a packet whose addresses and
\* ports tie, one from 192.168.1.0, and an IPv6 frame
KnownFrames ==
    {TcpFrame(Addr1, PortA, Addr2, PortB),
     TcpFrame(Addr2, PortB, Addr1, PortA),
     TcpFrame(Addr1, PortA, Addr1, PortA),
     TcpFrame(Addr3, PortA, Addr2, PortB),
     Frame(ETH_PROTOCOL_IPV6, IP_PROTOCOL_TCP, Addr1, PortA, Addr2, PortB)}

\* two conversations between the same two hosts that swap their ports, in both
\* directions, and a conversation of another host
ConversationFrames ==
    {TcpFrame(Addr1, PortA, Addr2, PortB),
     TcpFrame(Addr2, PortB, Addr1, PortA),
     TcpFrame(Addr1, PortB, Addr2, PortA),
     TcpFrame(Addr3, PortA, Addr2, PortB)}

\* the properties a caller reads
FlowProperties == {FLOW_HASH, FLOW_PROTOCOL, FLOW_LPORT, FLOW_UPORT, FLOW_LIP, FLOW_UIP}
TableProperties == {TABLE_SIZE, TABLE_HITS, TABLE_MISSES}

\* external hash arguments: none (0), and one value (0x1234)
Hashes == {0, 4660}
ExtHash == CHOOSE h \in Hashes : h # 0

\* timestamp arguments: none (0), and one value
Timestamps == {0, 7}
Stamp == CHOOSE t \in Timestamps : t # 0

\* the readings of the wall clock, in microseconds; the first is ClockStart
ClockReadings == 1000..(1000 + MaxTicks)
ClockStart == CHOOSE c \in ClockReadings : \A d \in ClockReadings : c <= d

\* header variants: every check of the parser, on both sides of its threshold
ParseLengths ==
    {SizeofEthernetHdr - 1, SizeofEthernetHdr,
     SizeofEthernetHdr + SizeofIpHdr - 1, SizeofEthernetHdr + SizeofIpHdr,
     SizeofEthernetHdr + SizeofIpHdr + 4, FullLength - 1, FullLength}

ParseFrames ==
    {Frame(eth, proto, ep[1], PortA, ep[2], PortB) :
        eth \in {ETH_PROTOCOL_IP, ETH_PROTOCOL_IPV6},
        proto \in {IP_PROTOCOL_TCP, IP_PROTOCOL_UDP, IP_PROTOCOL_ICMP},
        ep \in {<<Addr1, Addr2>>, <<Addr2, Addr2>>}}

(***************************************************************************)
(* flow_hash.  The CRCs of the tuples the inputs above parse to are kept   *)
(* in a table, so that each is computed once; any other tuple is computed  *)
(* on the spot.                                                            *)
(***************************************************************************)
CrcTable ==
    [t \in {flow_parse(ZeroFlow, fr, U32(FullLength), 0).f.tuple :
                fr \in KnownFrames \cup ParseFrames} |-> TupleCrc(t)]

TupleHash(t) == IF t \in DOMAIN CrcTable THEN CrcTable[t] ELSE TupleCrc(t)

\* flow_hash: the value returned
flow_hash(f) == IF f.hash # 0 THEN f.hash ELSE TupleHash(f.tuple)

\* variant: flow_hash returns the value without assigning f->hash
flow_hash_unstored(f) == f

\* flow_hash: the flow it leaves behind (f->hash is assigned when it was 0)
flow_hash_store(f) == [f EXCEPT !.hash = flow_hash(f)]

(***************************************************************************)
(* State.                                                                  *)
(***************************************************************************)
VARIABLES
    flows,      \* the GInetFlow objects allocated so far; record i is flows[i]
    table,      \* table->table: the nodes of the GHashTable, [hash, key]
    list,       \* table->list: record numbers, head first
    hits,       \* table->hits
    misses,     \* table->misses
    op,         \* the latest operation: "new", "get_full", "get", "foreach",
                \* "get_property", "table_get_property", "finalize"
    args,       \* the arguments of the latest g_inet_flow_get_full / g_inet_flow_get
    ret,        \* the value it returned: a record number or NULL
    visited,    \* the records the latest g_inet_flow_foreach handed to func, in order
    calls,      \* number of g_inet_flow_get_full / g_inet_flow_get calls so far
    origin,     \* history: origin[i] is the args and the number of the call that created i
    touched,    \* history: touched[i] is hits + misses after the latest call returning i
    clock,      \* what get_time_us () returns now, in microseconds
    value,      \* the GValue the latest property read filled in, and what was read
    released    \* the records whose reference has been dropped (the object is freed)

vars == <<flows, table, list, hits, misses, op, args, ret, visited, calls, origin, touched,
          clock, value, released>>

(***************************************************************************)
(* GLib containers, as g_inet_flow_table_init and g_inet_flow_get_full use *)
(* them.  The GHashTable is created with flow_hash and flow_compare and no *)
(* destroy functions.  GLib keeps with each node the hash it was inserted  *)
(* under; hash values 0 and 1 mark unused and removed nodes, so a key      *)
(* hashing to one of them is stored under 2.  A lookup matches a node when *)
(* the stored hash equals the lookup hash and the keys are the same        *)
(* pointer or compare equal.                                               *)
(***************************************************************************)
GHashValue(h) == IF h < 2 THEN 2 ELSE h

\* the nodes a lookup of flow `key` (not itself in the table) can match
GHashMatches(tbl, heap, key) ==
    LET hash_value == GHashValue(flow_hash(key))
    IN  {n \in tbl : n.hash = hash_value /\ flow_compare(heap[n.key], key)}

\* g_hash_table_lookup (table->table, &packet): the record found, or NULL
g_hash_table_lookup(tbl, heap, key) ==
    IF GHashMatches(tbl, heap, key) = {} THEN NULL
    ELSE (CHOOSE n \in GHashMatches(tbl, heap, key) : TRUE).key

\* g_hash_table_replace (table->table, flow, flow) for a new record `flow`:
\* a matching node has its key and value replaced, otherwise a node is added
g_hash_table_replace(tbl, heap, flow) ==
    (tbl \ GHashMatches(tbl, heap, heap[flow]))
        \cup {[hash |-> GHashValue(flow_hash(heap[flow])), key |-> flow]}

\* g_hash_table_size
g_hash_table_size(tbl) == Cardinality(tbl)

\* variant: nothing is removed
g_list_remove_none(l, data) == l

\* g_list_remove: drops the first element equal to data
RECURSIVE g_list_remove(_, _)
g_list_remove(l, data) ==
    IF l = <<>> THEN <<>>
    ELSE IF Head(l) = data THEN Tail(l)
    ELSE <<Head(l)>> \o g_list_remove(Tail(l), data)

g_list_prepend(l, data) == <<data>> \o l

\* the destroy notifiers g_inet_flow_table_init hands to g_hash_table_new_full
key_destroy_func == NULL
value_destroy_func == NULL

\* g_hash_table_destroy: every node is removed; a key or value is handed to its
\* destroy notifier when there is one.  `dropped` is the set of records so handed.
g_hash_table_destroy(tbl) ==
    [table |-> {},
     dropped |-> IF key_destroy_func = NULL /\ value_destroy_func = NULL
                 THEN {}
                 ELSE {n.key : n \in tbl}]

\* g_inet_address_new_from_bytes + g_inet_address_to_string: for an IPv4 address
\* the first four bytes in memory, in dotted decimal
g_inet_address_to_string(bytes, family) ==
    IF family = G_SOCKET_FAMILY_IPV4
    THEN ToString(bytes[1][1]) \o "." \o ToString(bytes[1][2]) \o "."
             \o ToString(bytes[1][3]) \o "." \o ToString(bytes[1][4])
    ELSE ""

(***************************************************************************)
(* g_inet_flow_get_full, as a function of the table and the heap.          *)
(* `now` is what get_time_us () returns if it is called.                   *)
(***************************************************************************)
Snapshot == [flows |-> flows, table |-> table, list |-> list,
             hits |-> hits, misses |-> misses, ret |-> ret]

\* variant: a rejected frame is counted as a miss
GetFullRejected_counted(s) == [s EXCEPT !.ret = NULL, !.misses = s.misses + 1]

\* flow_parse failed: return NULL
GetFullRejected(s) == [s EXCEPT !.ret = NULL]

\* variant: a hit leaves the record where it is in the list
GetFullHit_unmoved(s, flow, stamp) ==
    [s EXCEPT !.hits = s.hits + 1,
              !.flows[flow].timestamp = stamp,
              !.ret = flow]

\* variant: a hit leaves the record's timestamp as it was
GetFullHit_unstamped(s, flow, stamp) ==
    [s EXCEPT !.list = g_list_prepend(g_list_remove(s.list, flow), flow),
              !.hits = s.hits + 1,
              !.ret = flow]

\* variant: a hit is counted in table->misses
GetFullHit_miscounted(s, flow, stamp) ==
    [s EXCEPT !.list = g_list_prepend(g_list_remove(s.list, flow), flow),
              !.misses = s.misses + 1,
              !.flows[flow].timestamp = stamp,
              !.ret = flow]

\* the lookup found `flow`
GetFullHit(s, flow, stamp) ==
    [s EXCEPT !.list = g_list_prepend(g_list_remove(s.list, flow), flow),
              !.hits = s.hits + 1,
              !.flows[flow].timestamp = stamp,
              !.ret = flow]

\* the lookup found nothing; `packet` is the parsed flow after the lookup hashed it
GetFullMiss(s, packet, stamp) ==
    LET flow == Len(s.flows) + 1
        created == [ZeroFlow EXCEPT !.family = packet.family,
                                    !.hash = packet.hash,
                                    !.tuple = packet.tuple]
        \* g_hash_table_replace hashes the new key, which stores the hash in it
        heap == Append(s.flows, flow_hash_store(created))
    IN  [s EXCEPT !.flows = [heap EXCEPT ![flow].timestamp = stamp],
                  !.table = g_hash_table_replace(s.table, heap, flow),
                  !.list = g_list_prepend(s.list, flow),
                  !.misses = s.misses + 1,
                  !.ret = flow]

GetFull(s, frame, length, hash, timestamp, now) ==
    LET parsed == flow_parse(ZeroFlow, frame, U32(length), hash)
        flow == g_hash_table_lookup(s.table, s.flows, parsed.f)
        stamp == IF timestamp # 0 THEN timestamp ELSE now
    IN  IF ~parsed.ok THEN GetFullRejected(s)
        ELSE IF flow # NULL THEN GetFullHit(s, flow, stamp)
        ELSE GetFullMiss(s, flow_hash_store(parsed.f), stamp)

(***************************************************************************)
(* Operations.                                                             *)
(***************************************************************************)
\* a GValue nothing has been read into
NoValue == [object |-> NULL, prop_id |-> 0, v |-> NULL]

\* args before the first call
NoArgs == [frame |-> TcpFrame(ZeroWord, 0, ZeroWord, 0), length |-> 0,
           hash |-> 0, timestamp |-> 0]

\* g_inet_flow_table_new: an empty hash table, an empty list, zero counters
Init ==
    /\ flows = <<>>
    /\ table = {}
    /\ list = <<>>
    /\ hits = 0
    /\ misses = 0
    /\ op = "new"
    /\ args = NoArgs
    /\ ret = NULL
    /\ visited = <<>>
    /\ calls = 0
    /\ origin = <<>>
    /\ touched = <<>>
    /\ clock = ClockStart
    /\ value = NoValue
    /\ released = {}

\* one call of g_inet_flow_get_full, entered as operation `o`
Call(o, frame, length, hash, timestamp) ==
    \E s \in {GetFull(Snapshot, frame, length, hash, timestamp, clock)} :
        LET a == [frame |-> frame, length |-> length, hash |-> hash,
                  timestamp |-> timestamp]
            born == [frame |-> frame, length |-> length, hash |-> hash,
                     timestamp |-> timestamp, call |-> calls + 1]
        IN  /\ flows' = s.flows
            /\ table' = s.table
            /\ list' = s.list
            /\ hits' = s.hits
            /\ misses' = s.misses
            /\ ret' = s.ret
            /\ op' = o
            /\ args' = a
            /\ visited' = <<>>
            /\ calls' = calls + 1
            /\ origin' = IF Len(s.flows) > Len(flows) THEN Append(origin, born) ELSE origin
            /\ touched' = IF s.ret = NULL THEN touched
                          ELSE [i \in 1..Len(s.flows) |->
                                   IF i = s.ret THEN s.hits + s.misses ELSE touched[i]]
            /\ UNCHANGED <<clock, value, released>>

g_inet_flow_get_full ==
    /\ calls < MaxCalls
    /\ \E frame \in KnownFrames, hash \in Hashes :
           Call("get_full", frame, FullLength, hash, Stamp)

\* g_inet_flow_get (table, frame, length) = g_inet_flow_get_full (..., 0, 0)
g_inet_flow_get ==
    /\ calls < MaxCalls
    /\ \E frame \in KnownFrames : Call("get", frame, FullLength, 0, 0)

\* g_list_foreach (table->list, func, user_data)
g_inet_flow_foreach ==
    /\ op' = "foreach"
    /\ visited' = list
    /\ UNCHANGED <<flows, table, list, hits, misses, args, ret, calls, origin, touched, clock,
                   value, released>>

Next == g_inet_flow_get_full \/ g_inet_flow_get \/ g_inet_flow_foreach

Spec == Init /\ [][Next]_vars

\* g_inet_flow_get_full over the header variants, without an external hash
g_inet_flow_get_full_headers ==
    /\ calls < MaxParseCalls
    /\ \E frame \in ParseFrames, length \in ParseLengths, timestamp \in Timestamps :
           Call("get_full", frame, length, 0, timestamp)

\* the wall clock advances between calls
Tick ==
    /\ clock + 1 \in ClockReadings
    /\ clock' = clock + 1
    /\ UNCHANGED <<flows, table, list, hits, misses, op, args, ret, visited, calls,
                   origin, touched, value, released>>

NextParse == g_inet_flow_get_full_headers \/ Tick

SpecParse == Init /\ [][NextParse]_vars

(***************************************************************************)
(* The property accessors and the destruction of the table, with           *)
(* g_inet_flow_get over conversations that share hosts and ports.          *)
(***************************************************************************)
\* g_inet_flow_get_property: what the switch stores in the GValue
g_inet_flow_get_property_value(flow, prop_id) ==
    CASE prop_id = FLOW_HASH -> flow.hash
      [] prop_id = FLOW_PROTOCOL -> flow.tuple.protocol
      [] prop_id = FLOW_LPORT -> flow.tuple.lower_port
      [] prop_id = FLOW_UPORT -> flow.tuple.upper_port
      [] prop_id = FLOW_LIP -> g_inet_address_to_string(flow.tuple.lower_ip, flow.family)
      [] prop_id = FLOW_UIP -> g_inet_address_to_string(flow.tuple.lower_ip, flow.family)

\* g_inet_flow_table_get_property: what the switch stores in the GValue
g_inet_flow_table_get_property_value(prop_id) ==
    CASE prop_id = TABLE_SIZE -> g_hash_table_size(table)
      [] prop_id = TABLE_HITS -> hits
      [] prop_id = TABLE_MISSES -> misses

\* g_inet_flow_get over the conversations, while the table exists
g_inet_flow_get_conversation ==
    /\ op # "finalize"
    /\ calls < MaxCalls
    /\ \E frame \in ConversationFrames : Call("get", frame, FullLength, 0, 0)

\* g_object_get (flow, name, &value, NULL) on a record the table returned
g_inet_flow_get_property ==
    /\ op # "finalize"
    /\ \E flow \in DOMAIN flows, prop_id \in FlowProperties :
           value' = [object |-> flow, prop_id |-> prop_id,
                     v |-> g_inet_flow_get_property_value(flows[flow], prop_id)]
    /\ op' = "get_property"
    /\ UNCHANGED <<flows, table, list, hits, misses, args, ret, visited, calls, origin,
                   touched, clock, released>>

\* g_object_get (table, name, &value, NULL)
g_inet_flow_table_get_property ==
    /\ op # "finalize"
    /\ \E prop_id \in TableProperties :
           value' = [object |-> "table", prop_id |-> prop_id,
                     v |-> g_inet_flow_table_get_property_value(prop_id)]
    /\ op' = "table_get_property"
    /\ UNCHANGED <<flows, table, list, hits, misses, args, ret, visited, calls, origin,
                   touched, clock, released>>

\* the last reference to the table is dropped: g_hash_table_destroy, then the
\* parent's finalize; table->list is left as it is
g_inet_flow_table_finalize ==
    /\ op # "finalize"
    /\ \E d \in {g_hash_table_destroy(table)} :
           /\ table' = d.table
           /\ released' = released \cup d.dropped
    /\ op' = "finalize"
    /\ UNCHANGED <<flows, list, hits, misses, args, ret, visited, calls, origin,
                   touched, clock, value>>

NextObject ==
    \/ g_inet_flow_get_conversation
    \/ g_inet_flow_get_property
    \/ g_inet_flow_table_get_property
    \/ g_inet_flow_table_finalize

SpecObject == Init /\ [][NextObject]_vars

(***************************************************************************)
(* Vocabulary of the properties.                                           *)
(***************************************************************************)
\* the step is a call of g_inet_flow_get_full or g_inet_flow_get
IsCall == calls' = calls + 1

\* the frame carries the IPv4 ethertype and the TCP protocol number
IsTcpIpv4(frame) ==
    /\ frame.eth_protocol = BE16(ETH_PROTOCOL_IP)
    /\ frame.ip_protocol = IP_PROTOCOL_TCP

\* a TCP/IPv4 frame handed over with its whole headers
ValidTcp(a) == IsTcpIpv4(a.frame) /\ a.length >= FullLength

\* the FlowKey the parser derives from the arguments of a call
FlowKey(a) == flow_parse(ZeroFlow, a.frame, U32(a.length), a.hash).f.tuple

\* the records held by the hash table, and by the list
TableRecords == {n.key : n \in table}
ListRecords == {list[i] : i \in DOMAIN list}

(***************************************************************************)
(* C1  Direction invariance: g_inet_flow_get of a valid TCP/IPv4 frame     *)
(* directly followed by g_inet_flow_get of the reversed frame returns the  *)
(* same record, and the second call is a hit: hits + 1, misses and the     *)
(* table size unchanged.                                                   *)
(***************************************************************************)
C1_DirectionInvariance ==
    [][(/\ op = "get" /\ ValidTcp(args)
        /\ IsCall /\ op' = "get"
        /\ args'.frame = Reverse(args.frame) /\ args'.length >= FullLength)
       => (/\ ret # NULL
           /\ ret' = ret
           /\ hits' = hits + 1
           /\ misses' = misses
           /\ g_hash_table_size(table') = g_hash_table_size(table))]_vars

\* two calls so far: g_inet_flow_get created a record, g_inet_flow_get of the
\* reverse packet then returned it
C1_Witness ==
    /\ op = "get" /\ calls = 2 /\ hits = 1 /\ misses = 1
    /\ ret = 1
    /\ origin[1].hash = 0 /\ origin[1].timestamp = 0
    /\ args.frame = Reverse(origin[1].frame)
    /\ args.frame # origin[1].frame

(***************************************************************************)
(* C2  Key uniqueness: the table never holds two records with the same     *)
(* FlowKey, whatever external hashes the calls passed.                     *)
(***************************************************************************)
C2_KeyUniqueness ==
    \A n1, n2 \in table :
        flows[n1.key].tuple = flows[n2.key].tuple => n1 = n2

(***************************************************************************)
(* C3  Mapping / recency consistency: the records in the hash table are    *)
(* the records in the list, and each is in the list exactly once.          *)
(***************************************************************************)
C3_MappingListConsistent ==
    /\ TableRecords = ListRecords
    /\ Cardinality(ListRecords) = Len(list)
    /\ g_hash_table_size(table) = Len(list)

\* a rejected call on a table that has seen misses and a hit
C3_Witness ==
    /\ op = "get_full" /\ ret = NULL /\ calls > 0
    /\ hits > 0 /\ Len(list) >= 2

(***************************************************************************)
(* C4  Rejection is side-effect-free: a call that returns NULL leaves the  *)
(* table size, hits, misses, the recency order and every field of every    *)
(* record as they were.                                                    *)
(***************************************************************************)
C4_RejectionNoSideEffect ==
    [][(IsCall /\ ret' = NULL) => UNCHANGED <<flows, table, list, hits, misses>>]_vars

\* a call was rejected while the table held a record
C4_Witness ==
    /\ op = "get_full" /\ ret = NULL /\ calls >= 2
    /\ Len(flows) >= 1 /\ origin[1].call < calls

(***************************************************************************)
(* C5  Hit / miss accounting: a call that returns a record counts a miss   *)
(* (and grows the table by one) if no record with the frame's FlowKey      *)
(* existed before the call, and a hit (size unchanged) otherwise.          *)
(***************************************************************************)
C5_HitMissAccounting ==
    [][(IsCall /\ ret' # NULL)
       => IF \E n \in table : flows[n.key].tuple = FlowKey(args')
          THEN /\ hits' = hits + 1
               /\ misses' = misses
               /\ g_hash_table_size(table') = g_hash_table_size(table)
          ELSE /\ misses' = misses + 1
               /\ hits' = hits
               /\ g_hash_table_size(table') = g_hash_table_size(table) + 1]_vars

(***************************************************************************)
(* C6  Recency ordering: g_inet_flow_foreach visits every record once,     *)
(* from the most recently returned to the least recently returned; the     *)
(* record of the latest successful call comes first.                       *)
(***************************************************************************)
C6_RecencyOrder ==
    op = "foreach" =>
        /\ \A i, j \in DOMAIN visited : i < j => touched[visited[i]] > touched[visited[j]]
        /\ {visited[i] : i \in DOMAIN visited} = DOMAIN flows
        /\ visited # <<>> => touched[visited[1]] = hits + misses

\* flows A, B, C observed in order, A observed again, then the traversal: A, C, B
C6_Witness ==
    /\ op = "foreach" /\ calls = 4 /\ misses = 3 /\ hits = 1
    /\ visited = <<1, 3, 2>>

(***************************************************************************)
(* C7  External-hash collisions do not merge flows: two valid TCP/IPv4     *)
(* frames with different FlowKeys, passed one after the other with the     *)
(* same non-zero external hash, get two distinct records, each with its    *)
(* own key; a call whose key no record had before is a miss, so with both  *)
(* keys new the table grows by two.                                        *)
(***************************************************************************)
C7_ExternalHashCollision ==
    [][(/\ op \in {"get", "get_full"} /\ IsCall
        /\ args.hash # 0 /\ args'.hash = args.hash
        /\ ValidTcp(args) /\ ValidTcp(args')
        /\ FlowKey(args) # FlowKey(args'))
       => (/\ ret # NULL /\ ret' # NULL /\ ret' # ret
           /\ flows'[ret].tuple = FlowKey(args)
           /\ flows'[ret'].tuple = FlowKey(args')
           /\ (\A i \in DOMAIN flows : origin[i].call < calls => flows[i].tuple # FlowKey(args))
                  => origin[ret].call = calls
           /\ (\A i \in DOMAIN flows : flows[i].tuple # FlowKey(args'))
                  => /\ origin'[ret'].call = calls'
                     /\ misses' = misses + 1
                     /\ g_hash_table_size(table') = g_hash_table_size(table) + 1)]_vars

\* two calls with the same external hash created two records with different keys
C7_Witness ==
    /\ calls = 2 /\ misses = 2 /\ g_hash_table_size(table) = 2
    /\ origin[1].hash = ExtHash /\ origin[2].hash = ExtHash
    /\ flows[1].hash = flows[2].hash
    /\ flows[1].tuple # flows[2].tuple

(***************************************************************************)
(* C8  Short-frame rejection: a call whose length argument is below 14     *)
(* returns no record and inserts nothing, whatever the buffer holds.       *)
(***************************************************************************)
C8_ShortFrameRejected ==
    [][(IsCall /\ args'.length < SizeofEthernetHdr)
       => (ret' = NULL /\ UNCHANGED <<flows, table, list>>)]_vars

(***************************************************************************)
(* C9  (as claimed) A 4-byte transport header suffices: every IPv4 / TCP   *)
(* frame of length >= 38 gets a record.                                    *)
(***************************************************************************)
C9_PortsSuffice ==
    (calls > 0 /\ IsTcpIpv4(args.frame) /\ args.length >= SizeofEthernetHdr + SizeofIpHdr + 4)
        => ret # NULL

(***************************************************************************)
(* C9  (amended) The whole 20-byte TCP header is required: an IPv4 / TCP   *)
(* frame of length >= 34 gets a record exactly when at least 20 bytes      *)
(* remain after the IPv4 header, that is when length >= 54.                *)
(***************************************************************************)
C9_TcpHeaderRequired ==
    (calls > 0 /\ IsTcpIpv4(args.frame) /\ args.length >= SizeofEthernetHdr + SizeofIpHdr)
        => (ret # NULL <=> args.length >= SizeofEthernetHdr + SizeofIpHdr + SizeofTcpHdr)

\* an IPv4 / TCP frame of exactly 54 bytes was accepted
C9_Witness ==
    /\ calls > 0 /\ IsTcpIpv4(args.frame)
    /\ args.length = SizeofEthernetHdr + SizeofIpHdr + SizeofTcpHdr
    /\ ret # NULL /\ flows[ret].tuple = FlowKey(args)

(***************************************************************************)
(* C10  Unsupported or IP-truncated frames create nothing: a frame whose   *)
(* ethertype is not 0x0800, or whose IPv4 protocol is not 6, or whose      *)
(* length is in 14..33, gets no record and nothing is inserted.            *)
(***************************************************************************)
C10_UnsupportedCreatesNothing ==
    [][(/\ IsCall
        /\ \/ GUINT16_FROM_BE(args'.frame.eth_protocol) # ETH_PROTOCOL_IP
           \/ args'.frame.ip_protocol # IP_PROTOCOL_TCP
           \/ (args'.length >= SizeofEthernetHdr
                  /\ args'.length < SizeofEthernetHdr + SizeofIpHdr))
       => (ret' = NULL /\ UNCHANGED <<flows, table, list>>)]_vars

\* a whole IPv4 / UDP frame was rejected while the table held a record
C10_Witness ==
    /\ calls >= 2 /\ ret = NULL /\ Len(flows) >= 1
    /\ GUINT16_FROM_BE(args.frame.eth_protocol) = ETH_PROTOCOL_IP
    /\ args.frame.ip_protocol = IP_PROTOCOL_UDP
    /\ args.length >= FullLength

(***************************************************************************)
(* C11  Idempotent identity: g_inet_flow_get of the same valid frame       *)
(* always returns the same record - the one record created without an      *)
(* external hash for the frame's key - and no call ever changes the        *)
(* protocol, addresses, ports or family of an existing record.             *)
(***************************************************************************)
C11_IdempotentIdentity ==
    [][/\ (op = "get" /\ ValidTcp(args) /\ IsCall /\ op' = "get" /\ args' = args)
            => (ret # NULL /\ ret' = ret)
       /\ (IsCall /\ op' = "get" /\ ValidTcp(args'))
            => /\ ret' # NULL
               /\ \A i \in DOMAIN flows :
                      (origin[i].hash = 0 /\ flows[i].tuple = FlowKey(args')) => ret' = i
       /\ \A i \in DOMAIN flows :
              /\ flows'[i].tuple = flows[i].tuple
              /\ flows'[i].family = flows[i].family]_vars

\* g_inet_flow_get returned, for the frame that created it, a record created at
\* least two calls earlier, after a call with another frame
C11_Witness ==
    /\ op = "get" /\ ret # NULL /\ hits >= 1
    /\ origin[ret].hash = 0
    /\ args.frame = origin[ret].frame
    /\ origin[ret].call + 1 < calls
    /\ Len(flows) >= 2

(***************************************************************************)
(* C13  Timestamp update: a call that returns a record leaves in that      *)
(* record the timestamp argument when it is non-zero and the clock reading *)
(* of the call when it is zero; no other record's timestamp changes, and a *)
(* call that returns nothing changes none.                                 *)
(***************************************************************************)
C13_TimestampUpdate ==
    [][IsCall =>
          /\ ret' # NULL =>
                 flows'[ret'].timestamp =
                     (IF args'.timestamp # 0 THEN args'.timestamp ELSE clock)
          /\ \A i \in DOMAIN flows :
                 i # ret' => flows'[i].timestamp = flows[i].timestamp]_vars

\* a hit with timestamp 0, after the clock advanced, on a record that was
\* created with an explicit timestamp
C13_Witness ==
    /\ op = "get_full" /\ ret # NULL /\ hits >= 1
    /\ origin[ret].timestamp = Stamp
    /\ args.timestamp = 0
    /\ clock > ClockStart
    /\ flows[ret].timestamp = clock

(***************************************************************************)
(* C15  Hash is set once: a record created on a miss carries the lookup    *)
(* hash of the creating call - the external hash when it is non-zero,      *)
(* otherwise the CRC of the record's own key - and a record's hash, once   *)
(* non-zero, is never changed by a later call, whatever external hash the  *)
(* call passes.                                                            *)
(***************************************************************************)
C15_HashSetOnce ==
    [][/\ (IsCall /\ misses' = misses + 1) =>
              /\ ret' = Len(flows) + 1
              /\ flows'[ret'].hash = (IF args'.hash # 0 THEN args'.hash
                                      ELSE TupleHash(flows'[ret'].tuple))
       /\ \A i \in DOMAIN flows :
              flows[i].hash # 0 => flows'[i].hash = flows[i].hash]_vars

\* a record created under the external hash is hit again while a record created
\* under the computed hash exists as well
C15_Witness ==
    /\ ret # NULL /\ hits >= 1
    /\ origin[ret].call < calls
    /\ flows[ret].hash = ExtHash
    /\ \E i \in DOMAIN flows :
           /\ origin[i].hash = 0
           /\ flows[i].hash # 0
           /\ flows[i].hash = TupleHash(flows[i].tuple)

(***************************************************************************)
(* C16  Canonical ordering: in every record lower_ip <= upper_ip as        *)
(* big-endian unsigned numbers and lower_port <= upper_port; the two       *)
(* addresses are the source and destination addresses of the creating      *)
(* packet and the two ports its source and destination ports; ties give    *)
(* lower = upper.  The record created from 10.0.0.1:443 -> 10.0.0.2:51000  *)
(* is {6, 10.0.0.1, 10.0.0.2, 443, 51000}.                                 *)
(***************************************************************************)
\* a <= b for two addresses given as bytes in network order
AddrLeq(a, b) ==
    \/ a = b
    \/ \E k \in 1..4 : a[k] < b[k] /\ \A j \in 1..(k - 1) : a[j] = b[j]

C16_CanonicalOrdering ==
    \A i \in DOMAIN flows :
        LET t == flows[i].tuple
            fr == origin[i].frame
        IN  /\ AddrLeq(t.lower_ip[1], t.upper_ip[1])
            /\ t.lower_port <= t.upper_port
            /\ {t.lower_ip[1], t.upper_ip[1]} = {fr.saddr, fr.daddr}
            /\ \A k \in 2..4 : t.lower_ip[k] = ZeroWord /\ t.upper_ip[k] = ZeroWord
            /\ {BE16(t.lower_port), BE16(t.upper_port)} = {fr.tcp_source, fr.tcp_destination}
            /\ (fr.saddr = fr.daddr) => t.lower_ip = t.upper_ip
            /\ (fr.tcp_source = fr.tcp_destination) => t.lower_port = t.upper_port
            /\ fr = TcpFrame(<<10, 0, 0, 1>>, 443, <<10, 0, 0, 2>>, 51000) =>
                   /\ t.protocol = 6
                   /\ t.lower_ip[1] = <<10, 0, 0, 1>> /\ t.upper_ip[1] = <<10, 0, 0, 2>>
                   /\ t.lower_port = 443 /\ t.upper_port = 51000

\* records exist that were created from a packet whose source is the upper
\* address, from a packet whose two endpoints tie, and from the example packet
C16_Witness ==
    /\ \E i \in DOMAIN flows :
           /\ origin[i].frame.saddr # origin[i].frame.daddr
           /\ flows[i].tuple.upper_ip[1] = origin[i].frame.saddr
    /\ \E i \in DOMAIN flows :
           /\ origin[i].frame.saddr = origin[i].frame.daddr
           /\ flows[i].tuple.lower_port = flows[i].tuple.upper_port
    /\ \E i \in DOMAIN flows :
           origin[i].frame = TcpFrame(Addr1, PortA, Addr2, PortB)

(***************************************************************************)
(* C18  No-eviction accounting: after every step the size of the hash      *)
(* table, the misses counter and the length of the list are equal; hits    *)
(* and misses never decrease; and hits + misses grows by one exactly on    *)
(* the calls that return a record, so that it counts those calls.          *)
(***************************************************************************)
C18_NoEvictionAccounting ==
    [][/\ g_hash_table_size(table') = misses'
       /\ misses' = Len(list')
       /\ hits' >= hits
       /\ misses' >= misses
       /\ hits' + misses' =
              hits + misses + (IF IsCall /\ ret' # NULL THEN 1 ELSE 0)]_vars

\* hits, misses and rejected calls have all happened
C18_Witness ==
    /\ hits >= 1
    /\ misses >= 2
    /\ calls > hits + misses
    /\ g_hash_table_size(table) = misses

(***************************************************************************)
(* C12  Upper-address accessor: reading "uip" of a record gives the text   *)
(* of its upper_ip and reading "lip" the text of its lower_ip, so for a    *)
(* record whose two addresses differ the two reads give different strings. *)
(***************************************************************************)
\* the dotted-decimal text of the addresses the frames use
AddrText(a) ==
    CASE a = <<10, 0, 0, 1>> -> "10.0.0.1"
      [] a = <<10, 0, 0, 2>> -> "10.0.0.2"
      [] a = <<192, 168, 1, 0>> -> "192.168.1.0"

C12_UpperAddressAccessor ==
    (op = "get_property" /\ value.prop_id \in {FLOW_LIP, FLOW_UIP}) =>
        LET t == flows[value.object].tuple
        IN  /\ value.prop_id = FLOW_LIP => value.v = AddrText(t.lower_ip[1])
            /\ value.prop_id = FLOW_UIP => value.v = AddrText(t.upper_ip[1])
            /\ (value.prop_id = FLOW_UIP /\ t.lower_ip # t.upper_ip)
                   => value.v # AddrText(t.lower_ip[1])

(***************************************************************************)
(* C14  Destruction releases everything: once g_inet_flow_table_finalize   *)
(* has run, the hash table is gone and every record the table created has  *)
(* been released.                                                          *)
(***************************************************************************)
C14_DestructionReleases ==
    op = "finalize" =>
        /\ table = {}
        /\ \A i \in DOMAIN flows : i \in released

(***************************************************************************)
(* C17  Distinct conversations get distinct records: g_inet_flow_get of a  *)
(* valid TCP/IPv4 frame returns a record created from a frame with the     *)
(* same protocol and the same unordered pair of (address, port) endpoints. *)
(***************************************************************************)
\* the unordered pair of (address, port) endpoints of a frame
Endpoints(frame) ==
    {<<frame.saddr, frame.tcp_source>>, <<frame.daddr, frame.tcp_destination>>}

C17_DistinctConversations ==
    (op = "get" /\ ret # NULL /\ ValidTcp(args)) =>
        /\ origin[ret].frame.ip_protocol = args.frame.ip_protocol
        /\ Endpoints(origin[ret].frame) = Endpoints(args.frame)

====
